---- MODULE Spec2Model ----
(***************************************************************************)
(* A model of package godotenv (src/godotenv.go): the multi-file           *)
(* orchestration LoadFrom / OverloadFrom / ReadFrom over the process       *)
(* environment, and the encoder Marshal with doubleQuoteEscape.            *)
(*                                                                         *)
(* Strings are sequences of one-character strings, so that escaping,       *)
(* integer parsing and formatting, sorting and decoding are computed       *)
(* character by character as the code computes them.                       *)
(***************************************************************************)
EXTENDS Integers, Sequences, FiniteSets, TLC

VARIABLES
    env,        \* the process environment: key -> value, for the keys that are set
    fs,         \* the file system: file name -> what os.Open and Parse give for it
    pc,         \* position of the running call: "idle", "loop", "done"
    op,         \* the running call: "load", "overload", "read" ("none" when idle)
    strict,     \* the strict argument of the running call
    filenames,  \* the filenames of the running call, after filenamesOrDefault
    idx,        \* the position of the range loop in filenames
    loaded,     \* the local variable loaded
    err,        \* the named result err
    envMap,     \* the named result envMap of ReadFrom
    env0,       \* history: the environment when the running call started
    opened,     \* history: the positions of filenames that readFile was called for
    mapIn,      \* encoder: the argument of Marshal
    order,      \* encoder: the order in which range iterated over the map
    text,       \* encoder: the string Marshal returned
    decoded,    \* encoder: what decoding text gave
    mstage,     \* encoder: "in", "marshalled", "decoded"
    line,       \* escaping: the argument of doubleQuoteEscape
    escaped,    \* escaping: its result
    estage      \* escaping: "in", "escaped"

loadVars == <<env, fs, pc, op, strict, filenames, idx, loaded, err, envMap,
              env0, opened>>
marshalVars == <<mapIn, order, text, decoded, mstage>>
escapeVars == <<line, escaped, estage>>
vars == <<loadVars, marshalVars, escapeVars>>

----------------------------------------------------------------------------
(* Characters and strings *)

BS == "\\"
NL == "\n"
CR == "\r"
DQ == "\""
SQ == "'"
EQ == "="
\* The backquote, byte 96 (written by name: the lexer takes no backquote in a string).
BQ == "backquote"

\* Byte values of the characters the model uses (the order sort.Strings and
\* string comparison use).
Ord(c) ==
    CASE c = "\t" -> 9   [] c = NL -> 10   [] c = CR -> 13  [] c = " " -> 32
      [] c = "!" -> 33   [] c = DQ -> 34   [] c = "#" -> 35 [] c = "$" -> 36
      [] c = SQ -> 39    [] c = "+" -> 43  [] c = "-" -> 45
      [] c = "0" -> 48   [] c = "1" -> 49  [] c = "2" -> 50 [] c = "3" -> 51
      [] c = "4" -> 52   [] c = "5" -> 53  [] c = "6" -> 54 [] c = "7" -> 55
      [] c = "8" -> 56   [] c = "9" -> 57  [] c = EQ -> 61
      [] c = "A" -> 65   [] c = "B" -> 66  [] c = BS -> 92  [] c = "_" -> 95
      [] c = BQ -> 96    [] c = "a" -> 97  [] c = "d" -> 100 [] c = "e" -> 101
      [] c = "l" -> 108  [] c = "n" -> 110 [] c = "o" -> 111 [] c = "p" -> 112
      [] c = "r" -> 114  [] c = "t" -> 116 [] c = "w" -> 119 [] c = "x" -> 120
      [] c = "{" -> 123  [] c = "}" -> 125

\* All strings over alphabet of length at most n.
RECURSIVE StringsUpTo(_, _)
StringsUpTo(alphabet, n) ==
    IF n = 0 THEN {<<>>}
    ELSE LET shorter == StringsUpTo(alphabet, n - 1)
         IN  shorter \cup {Append(s, c) : s \in shorter, c \in alphabet}

\* All maps from a subset of keys to values.
PartialMaps(keys, values) == UNION {[D -> values] : D \in SUBSET keys}

EmptyMap == [k \in {} |-> <<>>]

\* m with m[k] = v (a Go map assignment).
Put(m, k, v) == [x \in DOMAIN m \cup {k} |-> IF x = k THEN v ELSE m[x]]

----------------------------------------------------------------------------
(* The process environment and the files *)

Keys == {<<"A">>, <<"B">>}
Vals == {<<"o", "l", "d">>, <<"n", "e", "w">>}
FileNames == {".env", "a.env"}

MaxFiles == 3

Nil == <<"nil">>
noEnvFileLoadedErr == <<"no env file loaded">>
OpenErr(filename) == <<"open", filename>>
SyntaxErr(filename) == <<"syntax", filename>>

\* A file is missing, or Parse gives a map for it, with an error or without;
\* with an error the map holds the entries accepted before it.
FileStates ==
    {[exists |-> FALSE, out |-> EmptyMap, bad |-> FALSE]}
    \cup {[exists |-> TRUE, out |-> m, bad |-> b] :
            m \in PartialMaps(Keys, Vals), b \in BOOLEAN}

filenamesOrDefault(names) == IF Len(names) = 0 THEN <<".env">> ELSE names

readFile(filename) ==
    IF ~fs[filename].exists
    THEN [envMap |-> EmptyMap, err |-> OpenErr(filename)]
    ELSE [envMap |-> fs[filename].out,
          err |-> IF fs[filename].bad THEN SyntaxErr(filename) ELSE Nil]

\* os.Environ(): the lines key=value.
Environ(e) == {k \o <<EQ>> \o e[k] : k \in DOMAIN e}

\* strings.Split(s, "=")[0]: s up to its first "=".
RECURSIVE SplitFirst(_)
SplitFirst(s) ==
    IF s = <<>> \/ Head(s) = EQ THEN <<>>
    ELSE <<Head(s)>> \o SplitFirst(Tail(s))

currentEnv(e) == {SplitFirst(rawEnvLine) : rawEnvLine \in Environ(e)}

\* Setenvs without the test of currentEnv: every entry is set.
SetenvsAlways(e, m, overload) ==
    [k \in DOMAIN e \cup DOMAIN m |-> IF k \in DOMAIN m THEN m[k] ELSE e[k]]

\* The environment after the range loop of loadFile over envMap.
Setenvs(e, m, overload) ==
    [k \in DOMAIN e \cup {x \in DOMAIN m : x \notin currentEnv(e) \/ overload} |->
        IF k \in DOMAIN m /\ (k \notin currentEnv(e) \/ overload)
        THEN m[k] ELSE e[k]]

\* loadFile without the early return on readFile's error.
loadFileIgnoringErr(e, filename, overload) ==
    LET r == readFile(filename)
    IN  [err |-> r.err, env |-> Setenvs(e, r.envMap, overload)]

\* loadFile: the error it returns and the environment it leaves.
loadFile(e, filename, overload) ==
    LET r == readFile(filename)
    IN  IF r.err # Nil THEN [err |-> r.err, env |-> e]
        ELSE [err |-> Nil, env |-> Setenvs(e, r.envMap, overload)]

\* The test "innerErr != nil && strict" that makes a loop return early.
returnEarlyNever(innerErr, s) == FALSE

returnEarlyAlways(innerErr, s) == innerErr # Nil

returnEarly(innerErr, s) == innerErr # Nil /\ s

\* Merge that keeps an entry envMap already has.
MergeKeepFirst(into, individualEnvMap) ==
    [k \in DOMAIN into \cup DOMAIN individualEnvMap |->
        IF k \in DOMAIN into THEN into[k] ELSE individualEnvMap[k]]

\* The copy loop of ReadFrom: every entry of individualEnvMap into envMap.
Merge(into, individualEnvMap) ==
    [k \in DOMAIN into \cup DOMAIN individualEnvMap |->
        IF k \in DOMAIN individualEnvMap THEN individualEnvMap[k] ELSE into[k]]

----------------------------------------------------------------------------
(* The encoder: doubleQuoteEscape and Marshal *)

doubleQuoteSpecialChars == <<BS, NL, CR, DQ, "!", "$", BQ>>

\* The special characters with the backslash moved to the end.
specialCharsBackslashLast == <<NL, CR, DQ, "!", "$", BQ, BS>>

\* strings.Replace(s, old, new, -1) for a one-character old.
RECURSIVE Replace(_, _, _)
Replace(s, old, new) ==
    IF s = <<>> THEN <<>>
    ELSE (IF Head(s) = old THEN new ELSE <<Head(s)>>) \o Replace(Tail(s), old, new)

\* The replacement doubleQuoteEscape computes for the special character c.
toReplace(c) ==
    IF c = NL THEN <<BS, "n">>
    ELSE IF c = CR THEN <<BS, "r">>
    ELSE <<BS, c>>

\* The range loop of doubleQuoteEscape over chars, from position i on.
RECURSIVE escapeLoop(_, _, _)
escapeLoop(s, chars, i) ==
    IF i > Len(chars) THEN s
    ELSE escapeLoop(Replace(s, chars[i], toReplace(chars[i])), chars, i + 1)

\* doubleQuoteEscape replacing the backslash after the other characters.
doubleQuoteEscapeBackslashLast(s) == escapeLoop(s, specialCharsBackslashLast, 1)

doubleQuoteEscape(s) == escapeLoop(s, doubleQuoteSpecialChars, 1)

DigitChars == {"0", "1", "2", "3", "4", "5", "6", "7", "8", "9"}
DigitVal(c) == Ord(c) - Ord("0")
DigitChar(d) == CHOOSE c \in DigitChars : DigitVal(c) = d

\* The value of a string of digits, most significant first.
RECURSIVE DigitsVal(_, _)
DigitsVal(s, acc) ==
    IF s = <<>> THEN acc ELSE DigitsVal(Tail(s), acc * 10 + DigitVal(Head(s)))

\* strconv.Atoi: an optional sign, then one or more decimal digits. (Values
\* of the model are far too short to leave the range of int.)
Atoi(s) ==
    LET signed == s # <<>> /\ Head(s) \in {"+", "-"}
        digits == IF signed THEN Tail(s) ELSE s
    IN  IF digits = <<>> \/ \E i \in 1..Len(digits) : digits[i] \notin DigitChars
        THEN [d |-> 0, err |-> <<"syntax">>]
        ELSE [d |-> IF signed /\ Head(s) = "-"
                    THEN 0 - DigitsVal(digits, 0) ELSE DigitsVal(digits, 0),
              err |-> Nil]

\* The decimal digits of n >= 0.
RECURSIVE NatDigits(_)
NatDigits(n) ==
    IF n < 10 THEN <<DigitChar(n)>>
    ELSE Append(NatDigits(n \div 10), DigitChar(n % 10))

\* fmt's %d.
FormatInt(d) == IF d < 0 THEN <<"-">> \o NatDigits(0 - d) ELSE NatDigits(d)

\* The line Marshal appends for the entry (k, v).
MarshalLine(k, v) ==
    LET a == Atoi(v)
    IN  IF a.err = Nil
        THEN k \o <<EQ>> \o FormatInt(a.d)
        ELSE k \o <<EQ, DQ>> \o doubleQuoteEscape(v) \o <<DQ>>

\* The lines after the range loop of Marshal that iterated in the given order.
Lines(m, keyOrder) == [i \in 1..Len(keyOrder) |-> MarshalLine(keyOrder[i], m[keyOrder[i]])]

\* Go's string comparison a < b: bytewise lexicographic.
RECURSIVE StrLess(_, _)
StrLess(a, b) ==
    IF b = <<>> THEN FALSE
    ELSE IF a = <<>> THEN TRUE
    ELSE IF Head(a) # Head(b) THEN Ord(Head(a)) < Ord(Head(b))
    ELSE StrLess(Tail(a), Tail(b))

\* x inserted into the sorted list.
RECURSIVE Insert(_, _)
Insert(sorted, x) ==
    IF sorted = <<>> THEN <<x>>
    ELSE IF StrLess(x, Head(sorted)) THEN <<x>> \o sorted
    ELSE <<Head(sorted)>> \o Insert(Tail(sorted), x)

RECURSIVE sortFrom(_, _, _)
sortFrom(list, i, sorted) ==
    IF i > Len(list) THEN sorted ELSE sortFrom(list, i + 1, Insert(sorted, list[i]))

\* A sort that leaves the list as it is.
sortStringsNot(list) == list

\* sort.Strings.
sortStrings(list) == sortFrom(list, 1, <<>>)

\* strings.Join.
RECURSIVE Join(_, _)
Join(list, sep) ==
    IF list = <<>> THEN <<>>
    ELSE IF Len(list) = 1 THEN Head(list)
    ELSE Head(list) \o sep \o Join(Tail(list), sep)

Marshal(m, keyOrder) == Join(sortStrings(Lines(m, keyOrder)), <<NL>>)

\* The orders in which a range loop can go over the keys.
RECURSIVE Orders(_)
Orders(keys) ==
    IF keys = {} THEN {<<>>}
    ELSE UNION {{<<k>> \o o : o \in Orders(keys \ {k})} : k \in keys}

----------------------------------------------------------------------------
(* The decoder, parseBytes: a cursor over the whole buffer.  Its entries    *)
(* are stored as they are accepted; an error ends the decode.              *)

Blanks == {" ", "\t", CR}
NameChars == DigitChars \cup {"A", "B", "_", "a", "d", "e", "l", "n", "o", "p",
                              "r", "t", "w", "x"}

\* s[from..to], cut at the end of s.
Sub(s, from, to) ==
    LET last == IF to > Len(s) THEN Len(s) ELSE to
    IN  IF last < from THEN <<>> ELSE SubSeq(s, from, last)

\* The first position from p on whose character is not in set (Len + 1 if none).
RECURSIVE SkipWhile(_, _, _)
SkipWhile(src, p, set) ==
    IF p > Len(src) \/ src[p] \notin set THEN p ELSE SkipWhile(src, p + 1, set)

\* The first position from p on whose character is in set (Len + 1 if none).
RECURSIVE FindFirst(_, _, _)
FindFirst(src, p, set) ==
    IF p > Len(src) \/ src[p] \in set THEN p ELSE FindFirst(src, p + 1, set)

RECURSIVE TrimRight(_)
TrimRight(s) ==
    IF s # <<>> /\ s[Len(s)] \in Blanks THEN TrimRight(Sub(s, 1, Len(s) - 1)) ELSE s

\* The value of NAME: from the mapping accumulated so far, else from the
\* process environment, else empty.
Lookup(name, out) ==
    IF name \in DOMAIN out THEN out[name]
    ELSE IF name \in DOMAIN env THEN env[name]
    ELSE <<>>

\* The reference $NAME or ${NAME} at position p (src[p] = "$"): its value
\* and the position after it.  A "$" that starts no name stays a "$".
Reference(src, p, out) ==
    IF p < Len(src) /\ src[p + 1] = "{"
    THEN LET close == FindFirst(src, p + 2, {"}", NL, DQ})
         IN  IF close <= Len(src) /\ src[close] = "}" /\ close > p + 2
             THEN [val |-> Lookup(Sub(src, p + 2, close - 1), out), next |-> close + 1]
             ELSE [val |-> <<"$">>, next |-> p + 1]
    ELSE LET stop == SkipWhile(src, p + 1, NameChars)
         IN  IF stop > p + 1
             THEN [val |-> Lookup(Sub(src, p + 1, stop - 1), out), next |-> stop]
             ELSE [val |-> <<"$">>, next |-> p + 1]

\* What an escape sequence backslash+c decodes to.
Unescape(c) ==
    IF c = "n" THEN <<NL>>
    ELSE IF c = "r" THEN <<CR>>
    ELSE IF c \in {DQ, BS, "!", BQ, "$"} THEN <<c>>
    ELSE <<BS, c>>

\* A double-quoted value read from position p (after the opening quote):
\* escapes are decoded, unescaped references are expanded, real newlines are
\* part of the value, and the unescaped closing quote ends it.
RECURSIVE DoubleQuoted(_, _, _, _)
DoubleQuoted(src, p, acc, out) ==
    IF p > Len(src) THEN [val |-> acc, next |-> p, err |-> <<"unterminated quoted value">>]
    ELSE IF src[p] = DQ THEN [val |-> acc, next |-> p + 1, err |-> Nil]
    ELSE IF src[p] = BS /\ p < Len(src)
         THEN DoubleQuoted(src, p + 2, acc \o Unescape(src[p + 1]), out)
    ELSE IF src[p] = "$"
         THEN LET r == Reference(src, p, out)
              IN  DoubleQuoted(src, r.next, acc \o r.val, out)
    ELSE DoubleQuoted(src, p + 1, Append(acc, src[p]), out)

\* A single-quoted value read from position p: literal up to the next quote.
SingleQuoted(src, p) ==
    LET close == FindFirst(src, p, {SQ})
    IN  IF close > Len(src)
        THEN [val |-> <<>>, next |-> close, err |-> <<"unterminated quoted value">>]
        ELSE [val |-> Sub(src, p, close - 1), next |-> close + 1, err |-> Nil]

\* The references of an unquoted value expanded.
RECURSIVE Expand(_, _, _, _)
Expand(s, p, acc, out) ==
    IF p > Len(s) THEN acc
    ELSE IF s[p] = "$"
         THEN LET r == Reference(s, p, out) IN Expand(s, r.next, acc \o r.val, out)
    ELSE Expand(s, p + 1, Append(acc, s[p]), out)

\* The start of a trailing comment in src from p to the end of the line: a
\* "#" after whitespace (the position of the end of the line if none).
RECURSIVE CommentStart(_, _)
CommentStart(src, p) ==
    IF p > Len(src) \/ src[p] = NL THEN p
    ELSE IF src[p] = "#" /\ p > 1 /\ src[p - 1] \in Blanks THEN p
    ELSE CommentStart(src, p + 1)

\* An unquoted value read from position p: the rest of the line up to a
\* trailing comment, trimmed, its references expanded.
Unquoted(src, p, out) ==
    LET stop == CommentStart(src, p)
    IN  [val |-> Expand(TrimRight(Sub(src, p, stop - 1)), 1, <<>>, out),
         next |-> stop, err |-> Nil]

\* The position after an optional "export" and the whitespace that follows it.
SkipExport(src, p) ==
    IF Sub(src, p, p + 5) = <<"e", "x", "p", "o", "r", "t">>
       /\ p + 6 <= Len(src) /\ src[p + 6] \in Blanks
    THEN SkipWhile(src, p + 6, Blanks)
    ELSE p

\* parseBytes from position p with the entries accepted so far.
RECURSIVE parseFrom(_, _, _)
parseFrom(src, p, out) ==
    LET start == SkipWhile(src, p, Blanks \cup {NL})
    IN  IF start > Len(src) THEN [out |-> out, err |-> Nil]
        ELSE IF src[start] = "#" THEN parseFrom(src, FindFirst(src, start, {NL}), out)
        ELSE LET keyAt == SkipExport(src, start)
                 sep == FindFirst(src, keyAt, {EQ, NL})
                 key == TrimRight(Sub(src, keyAt, sep - 1))
                 valAt == SkipWhile(src, sep + 1, Blanks \ {CR})
                 v == IF valAt <= Len(src) /\ src[valAt] = DQ
                          THEN DoubleQuoted(src, valAt + 1, <<>>, out)
                      ELSE IF valAt <= Len(src) /\ src[valAt] = SQ
                          THEN SingleQuoted(src, valAt + 1)
                      ELSE Unquoted(src, valAt, out)
             IN  IF sep > Len(src) \/ src[sep] = NL
                     THEN [out |-> out, err |-> <<"missing separator">>]
                 ELSE IF key = <<>> THEN [out |-> out, err |-> <<"empty key">>]
                 ELSE IF v.err # Nil THEN [out |-> out, err |-> v.err]
                 ELSE parseFrom(src, FindFirst(src, v.next, {NL}), Put(out, key, v.val))

parseBytes(src) == parseFrom(src, 1, EmptyMap)

\* UnmarshalBytes: the map parseBytes filled, and its error.
UnmarshalBytes(src) == parseBytes(src)

----------------------------------------------------------------------------
(* LoadFrom, OverloadFrom, ReadFrom: one action per call, per iteration of *)
(* the range loop, and per return.                                         *)

\* The filename lists a call is given: up to MaxFiles names, repeats allowed.
RECURSIVE NameLists(_)
NameLists(n) ==
    IF n = 0 THEN {<<>>}
    ELSE LET shorter == NameLists(n - 1)
         IN  shorter \cup {Append(l, f) : l \in {x \in shorter : Len(x) = n - 1},
                                          f \in FileNames}

Call(o) ==
    /\ pc = "idle"
    /\ \E s \in BOOLEAN, names \in NameLists(MaxFiles) :
        /\ op' = o
        /\ strict' = s
        /\ filenames' = filenamesOrDefault(names)
    /\ loaded' = FALSE
    /\ err' = Nil
    /\ envMap' = EmptyMap
    /\ idx' = 1
    /\ env0' = env
    /\ opened' = {}
    /\ pc' = "loop"
    /\ UNCHANGED <<env, fs, marshalVars, escapeVars>>

LoadFromCall == Call("load")
OverloadFromCall == Call("overload")
ReadFromCall == Call("read")

\* One iteration of the loop of LoadFrom.
LoadFromIter ==
    /\ pc = "loop" /\ op = "load" /\ idx <= Len(filenames)
    /\ LET r == loadFile(env, filenames[idx], FALSE)
       IN  /\ env' = r.env
           /\ IF returnEarly(r.err, strict)
              THEN /\ err' = r.err
                   /\ pc' = "done"
                   /\ UNCHANGED <<loaded, idx>>
              ELSE /\ loaded' = (IF r.err = Nil THEN TRUE ELSE loaded)
                   /\ idx' = idx + 1
                   /\ UNCHANGED <<err, pc>>
    /\ opened' = opened \cup {idx}
    /\ UNCHANGED <<fs, op, strict, filenames, envMap, env0, marshalVars, escapeVars>>

\* One iteration of the loop of OverloadFrom.
OverloadFromIter ==
    /\ pc = "loop" /\ op = "overload" /\ idx <= Len(filenames)
    /\ LET r == loadFile(env, filenames[idx], TRUE)
       IN  /\ env' = r.env
           /\ IF returnEarly(r.err, strict)
              THEN /\ err' = r.err
                   /\ pc' = "done"
                   /\ UNCHANGED <<loaded, idx>>
              ELSE IF r.err # Nil /\ ~strict
              THEN /\ idx' = idx + 1
                   /\ UNCHANGED <<loaded, err, pc>>
              ELSE /\ loaded' = TRUE
                   /\ idx' = idx + 1
                   /\ UNCHANGED <<err, pc>>
    /\ opened' = opened \cup {idx}
    /\ UNCHANGED <<fs, op, strict, filenames, envMap, env0, marshalVars, escapeVars>>

\* One iteration of the loop of ReadFrom.
ReadFromIter ==
    /\ pc = "loop" /\ op = "read" /\ idx <= Len(filenames)
    /\ LET r == readFile(filenames[idx])
       IN  IF returnEarly(r.err, strict)
           THEN /\ err' = r.err
                /\ pc' = "done"
                /\ UNCHANGED <<loaded, idx, envMap>>
           ELSE IF r.err # Nil /\ ~strict
           THEN /\ idx' = idx + 1
                /\ UNCHANGED <<loaded, err, pc, envMap>>
           ELSE /\ loaded' = TRUE
                /\ envMap' = Merge(envMap, r.envMap)
                /\ idx' = idx + 1
                /\ UNCHANGED <<err, pc>>
    /\ opened' = opened \cup {idx}
    /\ UNCHANGED <<env, fs, op, strict, filenames, env0, marshalVars, escapeVars>>

\* The end of the loop: if !loaded { err = noEnvFileLoadedErr }; return.
LoopExit ==
    /\ pc = "loop" /\ idx > Len(filenames)
    /\ err' = (IF ~loaded THEN noEnvFileLoadedErr ELSE err)
    /\ pc' = "done"
    /\ UNCHANGED <<env, fs, op, strict, filenames, idx, loaded, envMap, env0,
                   opened, marshalVars, escapeVars>>

\* The caller takes the results; the next call may start.
Return ==
    /\ pc = "done"
    /\ pc' = "idle"
    /\ op' = "none"
    /\ strict' = FALSE
    /\ filenames' = <<>>
    /\ idx' = 1
    /\ loaded' = FALSE
    /\ err' = Nil
    /\ envMap' = EmptyMap
    /\ env0' = env
    /\ opened' = {}
    /\ UNCHANGED <<env, fs, marshalVars, escapeVars>>

InitIdle ==
    /\ pc = "idle" /\ op = "none" /\ strict = FALSE /\ filenames = <<>>
    /\ idx = 1 /\ loaded = FALSE /\ err = Nil /\ envMap = EmptyMap
    /\ opened = {}

InitMarshalIdle ==
    /\ mapIn = EmptyMap /\ order = <<>> /\ text = <<>>
    /\ decoded = [out |-> EmptyMap, err |-> Nil] /\ mstage = "in"

InitEscapeIdle == line = <<>> /\ escaped = <<>> /\ estage = "in"

Init ==
    /\ env \in PartialMaps(Keys, Vals)
    /\ env0 = env
    /\ fs \in [FileNames -> FileStates]
    /\ InitIdle
    /\ InitMarshalIdle
    /\ InitEscapeIdle

Next ==
    \/ LoadFromCall \/ OverloadFromCall \/ ReadFromCall
    \/ LoadFromIter \/ OverloadFromIter \/ ReadFromIter
    \/ LoopExit \/ Return

Spec == Init /\ [][Next]_vars

----------------------------------------------------------------------------
(* Marshal and its decoding; doubleQuoteEscape on its own *)

MaxLen == 2
MaxDigits == 3
MaxLine == 3

MKeys == {<<"A">>, <<"A", "0">>}
ValueChars == {BS, NL, CR, DQ, "!", "$", BQ, "n", "A", "4", "-"}
Digits == {"0", "2", "4", "5", "7"}
SmallVals == {<<"7">>, <<"$", "A">>}

\* An optional sign, then one to MaxDigits digits.
NumStrings ==
    {sign \o ds : sign \in {<<>>, <<"+">>, <<"-">>},
                  ds \in StringsUpTo(Digits, MaxDigits) \ {<<>>}}

Values == StringsUpTo(ValueChars, MaxLen) \cup NumStrings

\* The maps Marshal is given: one entry with any value, the other absent or
\* with a small value.
InputMaps ==
    {EmptyMap} \cup
    {Put(m, k, v) : m \in PartialMaps(MKeys, SmallVals), k \in MKeys, v \in Values}

LineChars == {BS, NL, CR, DQ, "!", "$", BQ, "n", "a"}

MarshalCall ==
    /\ mstage = "in"
    /\ \E keyOrder \in Orders(DOMAIN mapIn) :
        /\ order' = keyOrder
        /\ text' = Marshal(mapIn, keyOrder)
    /\ mstage' = "marshalled"
    /\ UNCHANGED <<mapIn, decoded, loadVars, escapeVars>>

UnmarshalCall ==
    /\ mstage = "marshalled"
    /\ decoded' = UnmarshalBytes(text)
    /\ mstage' = "decoded"
    /\ UNCHANGED <<mapIn, order, text, loadVars, escapeVars>>

InitMarshal ==
    /\ mapIn \in InputMaps
    /\ order = <<>> /\ text = <<>>
    /\ decoded = [out |-> EmptyMap, err |-> Nil] /\ mstage = "in"
    /\ env = [k \in {<<"A">>} |-> <<"o", "l", "d">>]
    /\ env0 = env
    /\ fs = [f \in FileNames |-> [exists |-> FALSE, out |-> EmptyMap, bad |-> FALSE]]
    /\ InitIdle
    /\ InitEscapeIdle

NextMarshal == MarshalCall \/ UnmarshalCall

SpecMarshal == InitMarshal /\ [][NextMarshal]_vars

EscapeCall ==
    /\ estage = "in"
    /\ escaped' = doubleQuoteEscape(line)
    /\ estage' = "escaped"
    /\ UNCHANGED <<line, loadVars, marshalVars>>

InitEscape ==
    /\ line \in StringsUpTo(LineChars, MaxLine)
    /\ escaped = <<>> /\ estage = "in"
    /\ env = EmptyMap
    /\ env0 = env
    /\ fs = [f \in FileNames |-> [exists |-> FALSE, out |-> EmptyMap, bad |-> FALSE]]
    /\ InitIdle
    /\ InitMarshalIdle

NextEscape == EscapeCall

SpecEscape == InitEscape /\ [][NextEscape]_vars

----------------------------------------------------------------------------
(* Properties of LoadFrom, OverloadFrom and ReadFrom *)

Positions == 1..Len(filenames)
OkAt(j) == readFile(filenames[j]).err = Nil
OutAt(j) == readFile(filenames[j]).envMap
\* The positions read successfully by the running call that define key k.
Defining(k) == {j \in opened : OkAt(j) /\ k \in DOMAIN OutAt(j)}
Last(js) == CHOOSE j \in js : \A i \in js : i <= j
First(js) == CHOOSE j \in js : \A i \in js : j <= i
FailingPositions == {j \in Positions : ~OkAt(j)}

\* C3: Load never overrides. During and after a LoadFrom call every variable
\* that was in the environment before the call has its prior value, and each
\* step of the call leaves every variable that is set as it is: it only adds
\* keys that were absent, with the value of the file being applied.
LoadNeverOverrides ==
    /\ [](op = "load" =>
            \A k \in DOMAIN env0 : k \in DOMAIN env /\ env[k] = env0[k])
    /\ [][op = "load" =>
            /\ \A k \in DOMAIN env : k \in DOMAIN env' /\ env'[k] = env[k]
            /\ \A k \in DOMAIN env' \ DOMAIN env :
                  /\ pc = "loop" /\ idx \in Positions /\ OkAt(idx)
                  /\ k \in DOMAIN OutAt(idx) /\ env'[k] = OutAt(idx)[k]]_vars

\* C3 witness: a LoadFrom call has returned after applying a file that gives
\* another value to a variable that was set before the call.
LoadNeverOverridesWitness ==
    /\ pc = "done" /\ op = "load"
    /\ \E k \in DOMAIN env0 :
          /\ Defining(k) # {}
          /\ \E j \in Defining(k) : OutAt(j)[k] # env0[k]
    /\ \E k \in DOMAIN env \ DOMAIN env0 : Defining(k) # {}

\* C4: last write wins for Overload and Read. When OverloadFrom or ReadFrom has
\* returned, every key defined by a file the call read successfully has, in the
\* environment (Overload) or in the returned map (Read), the value of the last
\* such file in list order.
LastWriteWins ==
    (pc = "done" /\ op \in {"overload", "read"}) =>
        \A k \in Keys :
            Defining(k) # {} =>
                LET result == IF op = "overload" THEN env ELSE envMap
                IN  k \in DOMAIN result /\ result[k] = OutAt(Last(Defining(k)))[k]

\* C4 witness: OverloadFrom has returned, a key that was set before the call is
\* defined with different values by two files it read.
LastWriteWinsWitness ==
    /\ pc = "done" /\ op = "overload"
    /\ \E k \in DOMAIN env0 :
          \E i, j \in Defining(k) :
              /\ i < j /\ OutAt(i)[k] # OutAt(j)[k]
              /\ OutAt(j)[k] # env0[k]

AllDecode == FailingPositions = {}

\* C5 as stated: under LoadFrom over files that all decode, a key absent from
\* the environment before the call and defined by several files ends with the
\* value of the last file that defines it.
LaterFileWinsUnderLoad ==
    (pc = "done" /\ op = "load" /\ AllDecode) =>
        \A k \in Keys \ DOMAIN env0 :
            Cardinality(Defining(k)) > 1 =>
                k \in DOMAIN env /\ env[k] = OutAt(Last(Defining(k)))[k]

\* C5 amended: under LoadFrom over files that all decode, a key absent from the
\* environment before the call and defined by several files ends with the
\* value of the first file in the list that defines it.
FirstFileWinsUnderLoad ==
    (pc = "done" /\ op = "load" /\ AllDecode) =>
        \A k \in Keys \ DOMAIN env0 :
            Cardinality(Defining(k)) > 1 =>
                k \in DOMAIN env /\ env[k] = OutAt(First(Defining(k)))[k]

\* C5 witness: LoadFrom has returned, all its files decoded, and a key absent
\* before the call is defined with different values by two of them.
FirstFileWinsUnderLoadWitness ==
    /\ pc = "done" /\ op = "load" /\ AllDecode
    /\ \E k \in Keys \ DOMAIN env0 :
          \E i, j \in Defining(k) : i < j /\ OutAt(i)[k] # OutAt(j)[k]

\* C6: strict mode aborts on the first failure. When a strict call has
\* returned and some file of its list fails, the error returned is the error
\* of the first failing file, not the no-env-file-loaded error, and readFile
\* was called for the positions up to that file and for none after it.
StrictAbortsOnFirstFailure ==
    (pc = "done" /\ strict /\ FailingPositions # {}) =>
        LET i == First(FailingPositions)
        IN  /\ err = readFile(filenames[i]).err
            /\ err # noEnvFileLoadedErr
            /\ opened = 1..i

\* C6 witness: a strict call has returned on a failing file that is followed
\* by a file that would have decoded and is preceded by one that did.
StrictAbortsOnFirstFailureWitness ==
    /\ pc = "done" /\ strict /\ FailingPositions # {}
    /\ \E j \in Positions : j > First(FailingPositions) /\ OkAt(j)
    /\ \E j \in Positions : j < First(FailingPositions)

\* C7: the non-strict result. When a non-strict call has returned, readFile
\* was called for every position of the list, and the error is nil if and only
\* if some file decoded, and is the no-env-file-loaded error otherwise.
NonStrictResult ==
    (pc = "done" /\ ~strict) =>
        /\ opened = Positions
        /\ (err = Nil) <=> (\E j \in Positions : OkAt(j))
        /\ err # Nil => err = noEnvFileLoadedErr

\* C7 witness: a non-strict call has returned nil although a file before the
\* one that decoded failed.
NonStrictResultWitness ==
    /\ pc = "done" /\ ~strict /\ err = Nil
    /\ \E i, j \in Positions : i < j /\ ~OkAt(i) /\ OkAt(j)

\* C8: no partial merge on error. An iteration over a file that fails to open
\* or to decode changes neither the environment nor the map ReadFrom returns,
\* in strict and in non-strict mode.
NoPartialMerge ==
    [][(pc = "loop" /\ idx \in Positions /\ ~OkAt(idx)) =>
            (env' = env /\ envMap' = envMap)]_vars

\* C8 witness: a call went over a file whose decode failed after it accepted an
\* entry for a key that the environment and the returned map do not hold.
NoPartialMergeWitness ==
    /\ pc \in {"loop", "done"}
    /\ \E j \in opened :
          /\ fs[filenames[j]].exists /\ fs[filenames[j]].bad
          /\ \E k \in DOMAIN fs[filenames[j]].out :
                k \notin DOMAIN env /\ k \notin DOMAIN envMap

----------------------------------------------------------------------------
(* Properties of the encoder *)

\* A left-to-right pass over s that replaces each special character by its
\* escape and copies the others.
RECURSIVE SinglePass(_)
SinglePass(s) ==
    IF s = <<>> THEN <<>>
    ELSE (IF \E i \in 1..Len(doubleQuoteSpecialChars) : doubleQuoteSpecialChars[i] = Head(s)
          THEN (IF Head(s) = NL THEN <<BS, "n">>
                ELSE IF Head(s) = CR THEN <<BS, "r">>
                ELSE <<BS, Head(s)>>)
          ELSE <<Head(s)>>) \o SinglePass(Tail(s))

\* C10: no double escaping. doubleQuoteEscape returns what a single
\* left-to-right pass returns that replaces each original special character
\* by its two-character escape and copies every other character.
NoDoubleEscaping == estage = "escaped" => escaped = SinglePass(line)

\* C10 witness: a line was escaped that holds a backslash and another special
\* character, for which a backslash was inserted.
NoDoubleEscapingWitness ==
    /\ estage = "escaped"
    /\ \E i, j \in 1..Len(line) : line[i] = BS /\ line[j] \in {NL, DQ, "$"}

\* s split at the newlines.
RECURSIVE SplitLines(_, _)
SplitLines(s, cur) ==
    IF s = <<>> THEN <<cur>>
    ELSE IF Head(s) = NL THEN <<cur>> \o SplitLines(Tail(s), <<>>)
    ELSE SplitLines(Tail(s), Append(cur, Head(s)))

TextLines == IF text = <<>> THEN <<>> ELSE SplitLines(text, <<>>)

\* C9: deterministic encoding. The text Marshal returned is the text it returns
\* for every other iteration order of the map: the lines emitted for the
\* entries, each once, in non-decreasing order of the whole line, joined by
\* single newlines with none at the end.
DeterministicEncoding ==
    mstage # "in" =>
        /\ \A o \in Orders(DOMAIN mapIn) : Marshal(mapIn, o) = text
        /\ Len(TextLines) = Cardinality(DOMAIN mapIn)
        /\ \A k \in DOMAIN mapIn :
              \E i \in 1..Len(TextLines) : TextLines[i] = MarshalLine(k, mapIn[k])
        /\ \A i \in 1..(Len(TextLines) - 1) : ~StrLess(TextLines[i + 1], TextLines[i])
        /\ (text # <<>> => text[Len(text)] # NL)

\* C9 witness: Marshal iterated over two entries in the order of their keys and
\* returned their lines in the other order, the order of the whole lines.
DeterministicEncodingWitness ==
    /\ mstage = "marshalled"
    /\ Len(order) = 2 /\ StrLess(order[1], order[2])
    /\ TextLines = <<MarshalLine(order[2], mapIn[order[2]]),
                     MarshalLine(order[1], mapIn[order[1]])>>

\* v is what parsing it as an integer and formatting the integer gives.
RoundTripsInt(v) == Atoi(v).err = Nil /\ FormatInt(Atoi(v).d) = v

\* C2: numeric serialization. For every entry (k, v) Marshal emits the line
\* k=v when v round-trips through integer parse-then-format, and the quoted
\* line k="<escaped v>" otherwise.
NumericSerialization ==
    mstage # "in" =>
        \A k \in DOMAIN mapIn :
            \E i \in 1..Len(TextLines) :
                TextLines[i] = IF RoundTripsInt(mapIn[k])
                               THEN k \o <<EQ>> \o mapIn[k]
                               ELSE k \o <<EQ, DQ>> \o doubleQuoteEscape(mapIn[k]) \o <<DQ>>

\* C1: round trip. Decoding the text Marshal returned gives the map Marshal
\* was given.
RoundTrip ==
    mstage = "decoded" => (decoded.err = Nil /\ decoded.out = mapIn)

\* The round trip of the maps whose values are not integers written otherwise
\* than %d writes them.
RoundTripOfOtherValues ==
    (mstage = "decoded"
        /\ \A k \in DOMAIN mapIn : Atoi(mapIn[k]).err = Nil => RoundTripsInt(mapIn[k]))
    => (decoded.err = Nil /\ decoded.out = mapIn)

====
